---- MODULE Spec2Model ----
(***************************************************************************)
(* Model of luminal's ShapeTracker (src/core/shape/tracker.rs).            *)
(*                                                                         *)
(* A tracker is a record of five parallel sequences.  The Rust arrays are  *)
(* 0-based; the sequences here are 1-based, so physical axis i of the      *)
(* source is element i + 1 of a sequence (see At).  The values stored in   *)
(* indexes are the 0-based axis numbers of the source.                     *)
(*                                                                         *)
(* Expressions are modelled by the integer they evaluate to: every dim,    *)
(* slice bound and padding amount of the model is a known constant, so     *)
(* to_usize() is always Some(n) and is_unknown() is always false.          *)
(***************************************************************************)
EXTENDS Integers, Sequences, FiniteSets, TLC

\* ------------------------------------------------------------------ bounds

\* Longest tracker the model builds (the source allows Capacity axes).
MaxLen == 3
\* Number of operations applied to the initial tracker.
MaxOps == 3
\* Number of tensors of the model that is saved and loaded.
MaxTensors == 2
\* Number of calls the model's serialize makes on the Serializer.
MaxCalls == 3
\* Number of times a compiler pass is run on one graph.
MaxRuns == 2
\* Number of nodes in no_delete, and in to_retrieve, when a pass starts.
MaxPinned == 1
\* Number of axes one slice or pad call gives a non-trivial argument for (the
\* other axes get (0, i32::MAX) or (0, 0), which leave the axis as it is).
MaxArgAxes == 1

\* ------------------------------------------------------- program constants

\* ArrayVec<[_; 6]>: the capacity of each of the five arrays.
Capacity == 6
\* i32::MAX, the "unset" upper slice bound.
I32_MAX == 2147483647

\* ------------------------------------------------------------- input sets

\* The dims given to new and fake.
InitDims == {<<>>, <<3>>, <<3, 4>>, <<2, 3, 4>>}
\* Sizes given to add_dim, expand and realize.
DimVals == {2, 3}
\* Sizes given to new, fake, add_dim and expand where an element count is
\* taken: a dim may be 0.
CountDims == {0, 2, 3}
\* Per-axis (start, end) arguments of slice.
SliceVals == {<<0, I32_MAX>>, <<1, I32_MAX>>, <<0, 2>>, <<1, 2>>}
\* Per-axis (start, end) arguments of slice where slices are stacked: also
\* negative ones and an end below the start.
SliceBoundVals == SliceVals \cup {<<-1, 2>>, <<1, -1>>, <<2, 1>>}
\* Per-axis (before, after) arguments of pad.
PadVals == {<<0, 0>>, <<1, 0>>, <<0, 1>>}

\* All sequences of length n over S.
SeqsOf(S, n) == [1..n -> S]
\* The sequences of length n over S with at most MaxArgAxes entries other than
\* the trivial one.
ArgsOf(S, n, trivial) ==
    {v \in SeqsOf(S, n) : Cardinality({i \in 1..n : v[i] # trivial}) <= MaxArgAxes}
\* All permutations of 0..n-1, as sequences of length n.
PermsOf(n) == {p \in [1..n -> 0..(n - 1)] : \A i, j \in 1..n : i # j => p[i] # p[j]}

\* -------------------------------------------------- Expression arithmetic

\* Expression::min / BigExpression::min, evaluated.
Min(a, b) == IF a <= b THEN a ELSE b
\* Expression::max, evaluated.
Max(a, b) == IF a >= b THEN a ELSE b
\* Term::Div evaluated on i32: truncating division.  With a zero divisor the
\* evaluation has no value in the source; the 0 here is never read by a claim,
\* each of which is about trackers whose axes have a positive extent (NonEmpty).
Div(a, b) ==
    IF b = 0 THEN 0
    ELSE LET q == (IF a < 0 THEN -a ELSE a) \div (IF b < 0 THEN -b ELSE b)
         IN  IF (a < 0) = (b < 0) THEN q ELSE -q
\* Term::Mod evaluated on i32: the remainder of the truncating division.
Rem(a, b) == a - b * Div(a, b)
\* Term::Gte / Term::Lt / Term::And evaluated: 1 or 0.
Gte(a, b) == IF a >= b THEN 1 ELSE 0
Lt(a, b) == IF a < b THEN 1 ELSE 0
And(a, b) == IF a # 0 /\ b # 0 THEN 1 ELSE 0

\* ------------------------------------------------------- array primitives

\* seq[i] of the source (0-based).
At(seq, i) == seq[i + 1]
\* ArrayVec::insert(i, x).
InsertAt(seq, i, x) == SubSeq(seq, 1, i) \o <<x>> \o SubSeq(seq, i + 1, Len(seq))
\* ArrayVec::remove(i), the remaining array.
RemoveAt(seq, i) == SubSeq(seq, 1, i) \o SubSeq(seq, i + 2, Len(seq))
\* seq with seq[i] = x (0-based).
SetAt(seq, i, x) == [seq EXCEPT ![i + 1] = x]

\* ------------------------------------------------------------ ShapeTracker

\* ShapeTracker::new
new(dims) ==
    [dims    |-> dims,
     indexes |-> [i \in 1..Len(dims) |-> i - 1],
     fake    |-> [i \in 1..Len(dims) |-> FALSE],
     slices  |-> [i \in 1..Len(dims) |-> <<0, I32_MAX>>],
     padding |-> [i \in 1..Len(dims) |-> <<0, 0>>]]

\* ShapeTracker::fake
fake(dims) == [new(dims) EXCEPT !.fake = [i \in 1..Len(dims) |-> TRUE]]

\* ShapeTracker::len
len(s) == Len(s.dims)

\* add_dim with the bug of pushing the new axis onto indexes instead of
\* inserting it at axis.
add_dim_push_last(s, axis, dim) ==
    [dims    |-> Append(s.dims, dim),
     indexes |-> Append(s.indexes, Len(s.dims)),
     fake    |-> Append(s.fake, FALSE),
     slices  |-> Append(s.slices, <<0, I32_MAX>>),
     padding |-> Append(s.padding, <<0, 0>>)]

\* ShapeTracker::add_dim
add_dim(s, axis, dim) ==
    [dims    |-> Append(s.dims, dim),
     indexes |-> InsertAt(s.indexes, axis, Len(s.dims)),
     fake    |-> Append(s.fake, FALSE),
     slices  |-> Append(s.slices, <<0, I32_MAX>>),
     padding |-> Append(s.padding, <<0, 0>>)]

\* ShapeTracker::expand
expand(s, axis, dim) ==
    LET a == add_dim(s, axis, dim)
    IN  [a EXCEPT !.fake = SetAt(a.fake, At(a.indexes, axis), TRUE)]

\* remove_dim with the bug of leaving the surviving indexes as they are.
remove_dim_no_shift(s, axis) ==
    LET index == At(s.indexes, axis)
    IN  [s   |-> [dims    |-> RemoveAt(s.dims, index),
                  indexes |-> RemoveAt(s.indexes, axis),
                  fake    |-> RemoveAt(s.fake, index),
                  slices  |-> RemoveAt(s.slices, index),
                  padding |-> RemoveAt(s.padding, index)],
         ret |-> At(s.dims, index)]

\* ShapeTracker::remove_dim: the tracker afterwards (s) and the returned dim (ret)
remove_dim(s, axis) ==
    LET index == At(s.indexes, axis)
        rest  == RemoveAt(s.indexes, axis)
    IN  [s   |-> [dims    |-> RemoveAt(s.dims, index),
                  indexes |-> [k \in 1..Len(rest) |->
                                  IF rest[k] > index THEN rest[k] - 1 ELSE rest[k]],
                  fake    |-> RemoveAt(s.fake, index),
                  slices  |-> RemoveAt(s.slices, index),
                  padding |-> RemoveAt(s.padding, index)],
         ret |-> At(s.dims, index)]

\* permute with the bug of storing axes itself instead of reordering indexes.
permute_overwrite(s, axes) ==
    [s EXCEPT !.indexes = [k \in 1..Len(axes) |-> axes[k]]]

\* ShapeTracker::permute
permute(s, axes) ==
    [s EXCEPT !.indexes = [k \in 1..Len(axes) |-> At(s.indexes, axes[k])]]

\* ShapeTracker::is_contiguous
is_contiguous(s) ==
    /\ \A a \in 0..(Len(s.indexes) - 1) : At(s.indexes, a) = a
    /\ \A i \in 1..Len(s.fake) : ~s.fake[i]

\* ShapeTracker::is_sliced
is_sliced(s) ==
    \E i \in 1..Len(s.slices) : s.slices[i][1] # 0 \/ s.slices[i][2] # I32_MAX

\* ShapeTracker::is_padded
is_padded(s) ==
    \E i \in 1..Len(s.padding) : s.padding[i][1] # 0 \/ s.padding[i][2] # 0

\* The loop of slice storing the clamped bounds given, without combining them
\* with the bounds the axis already has.
RECURSIVE slice_loop_overwrite(_, _, _)
slice_loop_overwrite(s, slices, i) ==
    IF i >= Len(slices) THEN s
    ELSE LET p  == At(s.indexes, i)
             se == At(slices, i)
         IN  slice_loop_overwrite(
                 [s EXCEPT !.slices = SetAt(s.slices, p, <<Max(se[1], 0), Max(se[2], 0)>>)],
                 slices, i + 1)

\* The loop of ShapeTracker::slice from bound number i on.
RECURSIVE slice_loop(_, _, _)
slice_loop(s, slices, i) ==
    IF i >= Len(slices) THEN s
    ELSE LET p   == At(s.indexes, i)
             cur == At(s.slices, p)
             se  == At(slices, i)
             lo  == Max(cur[1], Max(se[1], 0))
             hi  == Min(cur[2], Max(se[2], 0))
         IN  slice_loop([s EXCEPT !.slices = SetAt(s.slices, p, <<lo, hi>>)], slices, i + 1)

\* ShapeTracker::slice
slice(s, slices) == slice_loop(s, slices, 0)

\* The test of pad with the bug of looking at the upper bound only.
pad_panics_upper_only(be, sl) == be[2] # 0 /\ sl[2] # I32_MAX

\* The test of ShapeTracker::pad that panics ("Adding padding to a slice isn't
\* supported"): be = (before, after) asked for, sl = (lo, hi) of the axis.
pad_panics(be, sl) ==
    \/ (be[2] # 0 /\ sl[2] # I32_MAX)
    \/ (be[1] # 0 /\ sl[1] # 0)

\* The loop of ShapeTracker::pad from amount number i on: the tracker afterwards
\* (s) and whether the call panicked (err).  A panic leaves the axes already
\* padded as they are.
RECURSIVE pad_loop(_, _, _)
pad_loop(s, padding, i) ==
    IF i >= Len(padding) THEN [s |-> s, err |-> "none"]
    ELSE LET p   == At(s.indexes, i)
             be  == At(padding, i)
             cur == At(s.padding, p)
         IN  IF pad_panics(be, At(s.slices, p))
             THEN [s |-> s, err |-> "InvalidCompose"]
             ELSE pad_loop([s EXCEPT !.padding =
                               SetAt(s.padding, p,
                                     <<cur[1] + Max(be[1], 0), cur[2] + Max(be[2], 0)>>)],
                           padding, i + 1)

\* ShapeTracker::pad
pad(s, padding) == pad_loop(s, padding, 0)

\* The loop of ShapeTracker::realize from presented axis i on.
RECURSIVE realize_loop(_, _, _)
realize_loop(s, dims, i) ==
    IF i >= Len(s.indexes) THEN s
    ELSE realize_loop([s EXCEPT !.dims = SetAt(s.dims, At(s.indexes, i), At(dims, i))],
                      dims, i + 1)

\* ShapeTracker::realize
realize(s, dims) == realize_loop(s, dims, 0)

\* contiguous with the bug of carrying the padding over to the new tracker.
contiguous_keeps_padding(s) ==
    [new([k \in 1..Len(s.indexes) |->
            LET i == s.indexes[k]
            IN  Min(At(s.dims, i), At(s.slices, i)[2] - At(s.slices, i)[1])
                    + At(s.padding, i)[1] + At(s.padding, i)[2]])
        EXCEPT !.padding = [k \in 1..Len(s.indexes) |-> At(s.padding, s.indexes[k])]]

\* ShapeTracker::contiguous
contiguous(s) ==
    new([k \in 1..Len(s.indexes) |->
            LET i == s.indexes[k]
            IN  Min(At(s.dims, i), At(s.slices, i)[2] - At(s.slices, i)[1])
                    + At(s.padding, i)[1] + At(s.padding, i)[2]])

\* ShapeTracker::shape
shape(s) ==
    [k \in 1..Len(s.indexes) |->
        LET i == s.indexes[k]
        IN  Min(At(s.dims, i) + At(s.padding, i)[1] - At(s.slices, i)[1]
                    + At(s.padding, i)[2],
                At(s.slices, i)[2])]

\* logical_sh of index_expression and valid_expression, and the factor of
\* n_elements, for physical axis i: the padded then sliced extent.
logical_sh(s, i) ==
    Min(At(s.dims, i) + At(s.padding, i)[1] + At(s.padding, i)[2], At(s.slices, i)[2])
        - At(s.slices, i)[1]

\* The product of n_elements over the presented axes from position k on.
RECURSIVE n_elements_product(_, _)
n_elements_product(s, k) ==
    IF k >= Len(s.indexes) THEN 1
    ELSE logical_sh(s, At(s.indexes, k)) * n_elements_product(s, k + 1)

\* ShapeTracker::n_elements
n_elements(s) ==
    LET r == n_elements_product(s, 0)
    IN  IF r = 0 THEN 1 ELSE r

\* The product of n_physical_elements without the filter on the fake flag.
RECURSIVE n_physical_product_counts_fake(_, _)
n_physical_product_counts_fake(s, i) ==
    IF i >= Len(s.dims) THEN 1
    ELSE At(s.dims, i) * n_physical_product_counts_fake(s, i + 1)

\* The product of n_physical_elements over the physical axes from i on: the
\* dims of the axes that are not fake.
RECURSIVE n_physical_product(_, _)
n_physical_product(s, i) ==
    IF i >= Len(s.dims) THEN 1
    ELSE (IF At(s.fake, i) THEN 1 ELSE At(s.dims, i)) * n_physical_product(s, i + 1)

\* ShapeTracker::n_physical_elements
n_physical_elements(s) ==
    LET r == n_physical_product(s, 0)
    IN  IF r = 0 THEN 1 ELSE r

\* The scan of unordered_strides (and of index_expression, which repeats it):
\* physical axes from i down to 0, state the running product of the non-fake
\* dims to the right, acc the strides found so far (in original order).
RECURSIVE stride_scan(_, _, _, _)
stride_scan(s, i, state, acc) ==
    IF i < 0 THEN acc
    ELSE stride_scan(s, i - 1,
                     IF At(s.fake, i) THEN state ELSE state * At(s.dims, i),
                     <<state>> \o acc)

\* ShapeTracker::unordered_strides
unordered_strides(s) == stride_scan(s, Len(s.dims) - 1, 1, <<>>)

\* ShapeTracker::strides
strides(s) ==
    LET u == unordered_strides(s)
    IN  [k \in 1..Len(s.indexes) |-> At(u, s.indexes[k])]

\* The loop of index_expression with the bug of taking the stride of presented
\* position k instead of that of physical axis indexes[k].
RECURSIVE index_loop_stride_of_position(_, _, _, _, _, _)
index_loop_stride_of_position(s, z, u, k, acc, ret) ==
    IF k < 0 THEN ret
    ELSE LET i       == At(s.indexes, k)
             p0      == At(s.padding, i)[1]
             lo      == At(s.slices, i)[1]
             lsh     == Min(At(s.dims, i) + p0 + At(s.padding, i)[2], At(s.slices, i)[2]) - lo
             dim_ind == Rem(Div(z, acc), lsh)
         IN  index_loop_stride_of_position(s, z, u, k - 1, acc * lsh,
                        IF At(s.fake, i) THEN ret
                        ELSE ret + (dim_ind - p0 + (lo - Min(p0, lo))) * At(u, k))

\* The loop of index_expression without the test of the fake flag: a fake axis
\* contributes its coordinate times its stride like a real one.
RECURSIVE index_loop_counts_fake(_, _, _, _, _, _)
index_loop_counts_fake(s, z, u, k, acc, ret) ==
    IF k < 0 THEN ret
    ELSE LET i       == At(s.indexes, k)
             p0      == At(s.padding, i)[1]
             lo      == At(s.slices, i)[1]
             lsh     == logical_sh(s, i)
             dim_ind == Rem(Div(z, acc), lsh)
         IN  index_loop_counts_fake(s, z, u, k - 1, acc * lsh,
                        ret + (dim_ind - p0 + (lo - Min(p0, lo))) * At(u, i))

\* The loop of index_expression over the presented axes k, k-1, .. 0, evaluated
\* at logical index z.
RECURSIVE index_loop(_, _, _, _, _, _)
index_loop(s, z, u, k, acc, ret) ==
    IF k < 0 THEN ret
    ELSE LET i       == At(s.indexes, k)
             p0      == At(s.padding, i)[1]
             lo      == At(s.slices, i)[1]
             lsh     == logical_sh(s, i)
             dim_ind == Rem(Div(z, acc), lsh)
         IN  index_loop(s, z, u, k - 1, acc * lsh,
                        IF At(s.fake, i) THEN ret
                        ELSE ret + (dim_ind - p0 + (lo - Min(p0, lo))) * At(u, i))

\* ShapeTracker::index_expression, evaluated at z
index_expression(s, z) ==
    IF is_contiguous(s) /\ ~is_sliced(s) /\ ~is_padded(s) THEN z
    ELSE index_loop(s, z, stride_scan(s, Len(s.dims) - 1, 1, <<>>),
                    Len(s.indexes) - 1, 1, 0)

\* The loop of valid_expression over the presented axes k, k-1, .. 0, evaluated
\* at logical index z.
RECURSIVE valid_loop(_, _, _, _, _)
valid_loop(s, z, k, acc, ret) ==
    IF k < 0 THEN ret
    ELSE LET i       == At(s.indexes, k)
             sh      == At(s.dims, i)
             p0      == At(s.padding, i)[1]
             lo      == At(s.slices, i)[1]
             hi      == At(s.slices, i)[2]
             lsh     == logical_sh(s, i)
             dim_ind == Rem(Div(z, acc), lsh)
         IN  valid_loop(s, z, k - 1, acc * lsh,
                        IF At(s.fake, i) THEN ret
                        ELSE And(And(ret, Gte(dim_ind, p0 - Min(lo, p0))),
                                 Lt(dim_ind, Min(sh + p0, hi))))

\* valid_expression with the fast path of index_expression (it returns z).
valid_expression_returns_z(s, z) ==
    IF is_contiguous(s) /\ ~is_sliced(s) /\ ~is_padded(s) THEN z
    ELSE valid_loop(s, z, Len(s.indexes) - 1, 1, 1)

\* ShapeTracker::valid_expression, evaluated at z
valid_expression(s, z) ==
    IF is_contiguous(s) /\ ~is_sliced(s) /\ ~is_padded(s) THEN 1
    ELSE valid_loop(s, z, Len(s.indexes) - 1, 1, 1)

\* -------------------------------------------------------------------- state

\* The tracker under test with the history of its last call; the Graph a
\* compiler pass runs on with the locals and history of that pass; the state of
\* a save and load of a model's state dict.
VARIABLES st, pre, op, err, nops, graph, pass, sd
vars == <<st, pre, op, err, nops, graph, pass, sd>>
tracker_vars == <<st, pre, op, err, nops>>
graph_vars == <<graph, pass>>

NoOp == [name |-> "new", axis |-> 0, dim |-> 0, vec |-> <<>>]

\* The empty graph (Graph::new): no node, no edge, no reference.
EmptyGraph ==
    [ops |-> << >>, edges |-> {}, no_delete |-> {}, to_retrieve |-> {},
     id_remap |-> << >>, next_id |-> 0]

\* The nodes, operators and edges of G and its reference sets: what a pass
\* can change.
Contents(G) ==
    [ops |-> G.ops, edges |-> G.edges, no_delete |-> G.no_delete,
     to_retrieve |-> G.to_retrieve, id_remap |-> G.id_remap]

\* The locals and history of a pass on graph.  backend is the compiler that
\* runs; pattern is the search in progress ("2d", "batched", "attn") or "done";
\* cursor is the last match that search gave; matmul and batched_matmul are
\* the kernel caches of those names, 0 for None and the handle of the compiled
\* kernel for Some; kernels counts the kernels the device has compiled, and the
\* k-th of them has the handle k; compiled counts the kernel compilations of
\* the current invocation; run numbers the invocations; start
\* is the graph the current invocation was given; last is what the last step
\* did, log the rewrites done and skipped the matches skipped so far.
NewPass(backend, G) ==
    [backend |-> backend, pattern |-> "2d", cursor |-> <<-1, -1>>,
     matmul |-> 0, batched_matmul |-> 0, kernels |-> 0,
     compiled |-> [v \in {"2d", "batched"} |-> 0],
     run |-> 1, start |-> Contents(G), last |-> "start", log |-> << >>, skipped |-> << >>]

\* The state of a save and load.  phase is "serialize" while the model is
\* serialized, then "saved", "loading", "loaded", or "panicked"; modules are the
\* names of the module calls in progress, current_path and state the fields of
\* the Serializer, calls the number of calls made on it; tensors are the
\* tensors of the graph saved from, by (node, output); saved is the dictionary
\* save returned, given the dictionary the StateDictLoader was made with,
\* loader what is left of it, todo the keys
\* load has not come to yet; offset is the difference of the node ids of the
\* second graph to those of the first; cx is the graph loaded into.
NewSerializer(tensors, offset) ==
    [phase |-> "serialize", modules |-> << >>, current_path |-> << >>,
     state |-> << >>, calls |-> 0, tensors |-> tensors, offset |-> offset,
     saved |-> << >>, given |-> << >>, loader |-> << >>, todo |-> {},
     cx |-> [tensors |-> << >>, no_delete |-> {}]]

\* No pass runs and nothing is saved: the specifications of the tracker have
\* no graph.
NoGraph ==
    /\ graph = EmptyGraph
    /\ pass = [NewPass("none", EmptyGraph) EXCEPT !.pattern = "done"]
    /\ sd = [NewSerializer(<< >>, 0) EXCEPT !.phase = "none"]

\* No tracker call is made: the specifications of the passes have none under
\* test.
NoTracker ==
    /\ st = new(<<>>)
    /\ pre = st
    /\ op = NoOp
    /\ err = "none"
    /\ nops = 0

Init ==
    /\ \E dims \in InitDims : st \in {new(dims), fake(dims)}
    /\ NoGraph
    /\ pre = st
    /\ op = NoOp
    /\ err = "none"
    /\ nops = 0

\* Common part of every operation: it is one more call on the tracker st.
Call(name, axis, dim, vec) ==
    /\ UNCHANGED <<graph_vars, sd>>
    /\ nops < MaxOps
    /\ nops' = nops + 1
    /\ pre' = st
    /\ op' = [name |-> name, axis |-> axis, dim |-> dim, vec |-> vec]

AddDim ==
    \E axis \in 0..len(st), dim \in DimVals :
        /\ len(st) < Capacity
        /\ len(st) < MaxLen
        /\ Call("add_dim", axis, dim, <<>>)
        /\ st' = add_dim(st, axis, dim)
        /\ err' = "none"

Expand ==
    \E axis \in 0..len(st), dim \in DimVals :
        /\ len(st) < Capacity
        /\ len(st) < MaxLen
        /\ Call("expand", axis, dim, <<>>)
        /\ st' = expand(st, axis, dim)
        /\ err' = "none"

RemoveDim ==
    \E axis \in 0..(len(st) - 1) :
        /\ Call("remove_dim", axis, remove_dim(st, axis).ret, <<>>)
        /\ st' = remove_dim(st, axis).s
        /\ err' = "none"

Permute ==
    \E axes \in PermsOf(len(st)) :
        /\ Call("permute", 0, 0, axes)
        /\ st' = permute(st, axes)
        /\ err' = "none"

Slice ==
    \E slices \in ArgsOf(SliceVals, len(st), <<0, I32_MAX>>) :
        /\ Call("slice", 0, 0, slices)
        /\ st' = slice(st, slices)
        /\ err' = "none"

Pad ==
    \E padding \in ArgsOf(PadVals, len(st), <<0, 0>>) :
        /\ Call("pad", 0, 0, padding)
        /\ st' = pad(st, padding).s
        /\ err' = pad(st, padding).err

Realize ==
    \E dims \in SeqsOf(DimVals, len(st)) :
        /\ Call("realize", 0, 0, dims)
        /\ st' = realize(st, dims)
        /\ err' = "none"

Contiguous ==
    /\ Call("contiguous", 0, 0, <<>>)
    /\ st' = contiguous(st)
    /\ err' = "none"

Next ==
    \/ AddDim
    \/ Expand
    \/ RemoveDim
    \/ Permute
    \/ Slice
    \/ Pad
    \/ Realize
    \/ Contiguous

Spec == Init /\ [][Next]_vars

\* ------------------------------------------- trackers with dims that are 0

InitCounts ==
    /\ \E n \in 0..(MaxLen - 1) : \E dims \in SeqsOf(CountDims, n) :
           st \in {new(dims), fake(dims)}
    /\ NoGraph
    /\ pre = st
    /\ op = NoOp
    /\ err = "none"
    /\ nops = 0

AddDimCounts ==
    \E axis \in 0..len(st), dim \in CountDims :
        /\ len(st) < Capacity
        /\ len(st) < MaxLen
        /\ Call("add_dim", axis, dim, <<>>)
        /\ st' = add_dim(st, axis, dim)
        /\ err' = "none"

ExpandCounts ==
    \E axis \in 0..len(st), dim \in CountDims :
        /\ len(st) < Capacity
        /\ len(st) < MaxLen
        /\ Call("expand", axis, dim, <<>>)
        /\ st' = expand(st, axis, dim)
        /\ err' = "none"

NextCounts ==
    \/ AddDimCounts
    \/ ExpandCounts
    \/ RemoveDim
    \/ Permute
    \/ Slice
    \/ Pad

SpecCounts == InitCounts /\ [][NextCounts]_vars

\* ------------------------------------------------------- stacked slices

\* slice with bounds for the first n presented axes, n <= len.
SliceBounds ==
    \E n \in 0..len(st) : \E slices \in ArgsOf(SliceBoundVals, n, <<0, I32_MAX>>) :
        /\ Call("slice", 0, 0, slices)
        /\ st' = slice(st, slices)
        /\ err' = "none"

NextSlice ==
    \/ SliceBounds
    \/ Permute
    \/ Pad

SpecSlice == Init /\ [][NextSlice]_vars

\* ----------------------- trackers made by new, expand, permute, slice, pad

\* ShapeTracker::new(dims), no call made on it yet.
InitNew ==
    /\ Init
    /\ \E dims \in InitDims : st = new(dims)

NextNew ==
    \/ Expand
    \/ Permute
    \/ Slice
    \/ Pad

SpecNew == InitNew /\ [][NextNew]_vars

\* ------------------------------------------------------------------ graph
\*
\* A Graph is a record: ops maps each node id of the graph to its operator
\* [ty, dim] (dim is the reduced axis of a SumReduce, 0 otherwise); edges is a
\* set of [src, out, dst, inp, tr] (source node, its output index, destination
\* node, its input index, shape tracker); no_delete and to_retrieve are sets of
\* node ids; id_remap maps old ids to new ones; next_id is the id the next
\* added node gets.

\* The operator of a node that is not a reduction.
Op(ty) == [ty |-> ty, dim |-> 0]
\* MetalSumReduce / CudaSumReduce over axis dim.
SumReduce(dim) == [ty |-> "SumReduce", dim |-> dim]

\* The node ids of G.
Nodes(G) == DOMAIN G.ops

\* The edges into / out of node n.
Incoming(G, n) == {e \in G.edges : e.dst = n}
Outgoing(G, n) == {e \in G.edges : e.src = n}

\* Graph::add_op(op).input(..).input(..).finish(): a node with a new id whose
\* k-th input call (k = 0, 1, ..) gives the edge into its input k.
add_op(G, operator, inputs) ==
    LET id == G.next_id
    IN  [G EXCEPT !.ops = (id :> operator) @@ G.ops,
                  !.edges = G.edges \cup
                      {[src |-> inputs[k].node, out |-> inputs[k].out, dst |-> id,
                        inp |-> k - 1, tr |-> inputs[k].tr] : k \in 1..Len(inputs)},
                  !.next_id = id + 1]

\* Graph::get_sources(node): the (source node, shape tracker) of each input
\* of the node, in input order.
get_sources(G, n) ==
    LET ins == Incoming(G, n)
    IN  [k \in 1..Cardinality(ins) |->
            LET e == CHOOSE x \in ins :
                        Cardinality({y \in ins : y.inp < x.inp}) = k - 1
            IN  [node |-> e.src, tr |-> e.tr]]

\* StableGraph::remove_node(n): the node and every edge into or out of it go.
remove_node(G, n) ==
    [G EXCEPT !.ops = [m \in Nodes(G) \ {n} |-> G.ops[m]],
              !.edges = {e \in G.edges : e.src # n /\ e.dst # n}]

\* move_outgoing_edge(src, dst, graph): every edge out of src leaves dst
\* instead, with the same weight.
move_outgoing_edge(G, src, dst) ==
    [G EXCEPT !.edges = {IF e.src = src THEN [e EXCEPT !.src = dst] ELSE e : e \in G.edges}]

\* move_references(id_remap, no_delete, to_retrieve, src, trg): src -> trg is
\* put in the remap, and trg takes the place of src in each of the two sets
\* that holds src.
move_references(G, src, trg) ==
    [G EXCEPT !.id_remap = (src :> trg) @@ G.id_remap,
              !.no_delete = IF src \in G.no_delete
                            THEN (G.no_delete \ {src}) \cup {trg} ELSE G.no_delete,
              !.to_retrieve = IF src \in G.to_retrieve
                              THEN (G.to_retrieve \ {src}) \cup {trg} ELSE G.to_retrieve]

\* The lookup of id in the remap, followed until an id the remap does not map.
RECURSIVE remap(_, _)
remap(G, id) == IF id \in DOMAIN G.id_remap THEN remap(G, G.id_remap[id]) ELSE id

\* --------------------------------------------------------------- selector
\*
\* A selector of the two-node pattern s.edge(mul pattern, sum_reduce pattern)
\* is a record: shapes and fakes are the per-input patterns of the Mul (a shape
\* pattern is a sequence of names of unknown dims), dim is the axis the check
\* of the SumReduce asks for.

\* The shape patterns resolve consistently on the shapes shs of the inputs:
\* each has the length of its pattern, and equal names stand for equal dims.
shapes_match(pats, shs) ==
    /\ Len(pats) = Len(shs)
    /\ \A i \in 1..Len(pats) : Len(pats[i]) = Len(shs[i])
    /\ \A i, j \in 1..Len(pats) :
           \A a \in 1..Len(pats[i]), b \in 1..Len(pats[j]) :
               pats[i][a] = pats[j][b] => shs[i][a] = shs[j][b]

\* The fake masks hold on the fake flags fks of the inputs: masks[i][j] is the
\* fake flag of axis j of input i.
fakes_match(masks, fks) ==
    /\ Len(masks) = Len(fks)
    /\ \A i \in 1..Len(masks) : masks[i] = fks[i]

\* Nodes mul and sum_reduce of G match the selector sel.
matches(G, sel, mul, sum_reduce) ==
    /\ mul \in Nodes(G) /\ sum_reduce \in Nodes(G)
    /\ G.ops[mul].ty = "Mul"
    /\ G.ops[sum_reduce] = SumReduce(sel.dim)
    /\ \E e \in G.edges : e.src = mul /\ e.dst = sum_reduce
    /\ LET srcs == get_sources(G, mul)
       IN  /\ fakes_match(sel.fakes, [k \in 1..Len(srcs) |-> srcs[k].tr.fake])
           /\ shapes_match(sel.shapes, [k \in 1..Len(srcs) |-> shape(srcs[k].tr)])

\* Pair q of node ids comes after pair p in node-id order.
After(p, q) == q[1] > p[1] \/ (q[1] = p[1] /\ q[2] > p[2])

\* The matches of sel in G that a search which has got as far as cursor still
\* has to give.
remaining(G, sel, cursor) ==
    {q \in {<<e.src, e.dst>> : e \in G.edges} :
        After(cursor, q) /\ matches(G, sel, q[1], q[2])}

\* The first of the pairs R in node-id order: the set of that pair, or the
\* empty set if there is none.
first(R) == {q \in R : \A x \in R : x = q \/ After(q, x)}

\* GraphSelector::search(graph).next(): the first match in node-id order that
\* the search has not passed yet, as the set of that match (Some), or the
\* empty set (None).
search_next(G, sel, cursor) == first(remaining(G, sel, cursor))


\* ------------------------------------------------------------ matmul pass

\* The selector of the 2D pattern:
\* Mul([A, C(fake), B] | [A(fake), C, B]) -> SumReduce(2).
Sel2D ==
    [shapes |-> << <<"A", "C", "B">>, <<"A", "C", "B">> >>,
     fakes  |-> << <<FALSE, TRUE, FALSE>>, <<TRUE, FALSE, FALSE>> >>,
     dim    |-> 2]
\* The selector of the batched pattern.
SelBatched ==
    [shapes |-> << <<"D", "A", "C", "B">>, <<"D", "A", "C", "B">> >>,
     fakes  |-> << <<FALSE, FALSE, TRUE, FALSE>>, <<TRUE, TRUE, FALSE, FALSE>> >>,
     dim    |-> 3]
\* The selector of the attention pattern.
SelAttn ==
    [shapes |-> << <<"A", "B", "C", "E", "D">>, <<"A", "B", "C", "E", "D">> >>,
     fakes  |-> << <<FALSE, FALSE, FALSE, TRUE, FALSE>>,
                   <<FALSE, FALSE, TRUE, FALSE, FALSE>> >>,
     dim    |-> 4]

\* The sources of a 2D match with the expansion undone but the second one not
\* permuted.
srcs_2d_no_permute(srcs) ==
    << [srcs[1] EXCEPT !.tr = remove_dim(@, 1).s],
       [srcs[2] EXCEPT !.tr = remove_dim(@, 0).s] >>

\* "Undo expansions and permute" of the 2D loop.
srcs_2d(srcs) ==
    << [srcs[1] EXCEPT !.tr = remove_dim(@, 1).s],
       [srcs[2] EXCEPT !.tr = permute(remove_dim(@, 0).s, <<1, 0>>)] >>

\* "Undo expansions and permute" of the batched loop.
srcs_batched(srcs) ==
    << [srcs[1] EXCEPT !.tr = remove_dim(@, 2).s],
       [srcs[2] EXCEPT !.tr =
            permute(remove_dim(remove_dim(@, 1).s, 0).s, <<1, 0>>)] >>

\* "Undo expansions and permute" of the attention loop.
srcs_attn(srcs) ==
    << [srcs[1] EXCEPT !.tr = remove_dim(@, 3).s],
       [srcs[2] EXCEPT !.tr = remove_dim(permute(@, <<0, 1, 2, 4, 3>>), 2).s] >>

\* The test of a loop body of a pass that never finds the Mul pinned.
pinned_never(G, mul) == FALSE

\* if graph.no_delete.contains(&mul) { continue; }
pinned(G, mul) == mul \in G.no_delete

\* The rewrite that leaves the Mul and the SumReduce in the graph.
rewrite_keeps_old_ops(G, mul, sum_reduce, srcs, fused, mul_refs) ==
    LET new_op == G.next_id
        G1 == add_op(G, fused,
                     [k \in 1..2 |-> [node |-> srcs[k].node, out |-> 0, tr |-> srcs[k].tr]])
        G2 == move_outgoing_edge(G1, sum_reduce, new_op)
        G3 == move_references(G2, sum_reduce, new_op)
    IN  IF mul_refs THEN move_references(G3, mul, new_op) ELSE G3

\* The rewrite that removes the SumReduce only.
rewrite_keeps_mul(G, mul, sum_reduce, srcs, fused, mul_refs) ==
    remove_node(rewrite_keeps_old_ops(G, mul, sum_reduce, srcs, fused, mul_refs), sum_reduce)

\* The rewrite that does not move the references of the SumReduce.
rewrite_keeps_references(G, mul, sum_reduce, srcs, fused, mul_refs) ==
    LET new_op == G.next_id
        G1 == add_op(G, fused,
                     [k \in 1..2 |-> [node |-> srcs[k].node, out |-> 0, tr |-> srcs[k].tr]])
        G2 == move_outgoing_edge(G1, sum_reduce, new_op)
    IN  remove_node(remove_node(G2, mul), sum_reduce)

\* The rewrite that does not move the edges out of the SumReduce.
rewrite_keeps_edges(G, mul, sum_reduce, srcs, fused, mul_refs) ==
    LET new_op == G.next_id
        G1 == add_op(G, fused,
                     [k \in 1..2 |-> [node |-> srcs[k].node, out |-> 0, tr |-> srcs[k].tr]])
        G3 == move_references(G1, sum_reduce, new_op)
        G4 == IF mul_refs THEN move_references(G3, mul, new_op) ELSE G3
    IN  remove_node(remove_node(G4, mul), sum_reduce)

\* The graph surgery of a loop body, from add_op to the two remove_node: the
\* fused operator gets the sources srcs as inputs 0 and 1 (each from output
\* 0 of its node), takes over the edges out of sum_reduce and its references
\* (and, where mul_refs, those of mul), and mul and sum_reduce are removed.
rewrite(G, mul, sum_reduce, srcs, fused, mul_refs) ==
    LET new_op == G.next_id
        G1 == add_op(G, fused,
                     [k \in 1..2 |-> [node |-> srcs[k].node, out |-> 0, tr |-> srcs[k].tr]])
        G2 == move_outgoing_edge(G1, sum_reduce, new_op)
        G3 == move_references(G2, sum_reduce, new_op)
        G4 == IF mul_refs THEN move_references(G3, mul, new_op) ELSE G3
    IN  remove_node(remove_node(G4, mul), sum_reduce)

\* "Undo expansions and permute" of the loop of the pattern in progress.
undo_expansions(srcs) ==
    CASE pass.pattern = "2d"      -> srcs_2d(srcs)
      [] pass.pattern = "batched" -> srcs_batched(srcs)
      [] OTHER                    -> srcs_attn(srcs)

\* The kernel cache of the name cache: 0 for None, also where the loop has no
\* cache.
cached(cache) ==
    CASE cache = "2d"      -> pass.matmul
      [] cache = "batched" -> pass.batched_matmul
      [] OTHER             -> 0

\* The kernel that is compiled for every match.
get_or_compile_always(cache) == pass.kernels + 1

\* if matmul.is_none() { matmul = Some(..::compile(&dev)); } matmul.clone():
\* the handle of the cached kernel, or of the kernel compiled now.
get_or_compile(cache) ==
    IF cached(cache) = 0 THEN pass.kernels + 1 ELSE cached(cache)

\* The fused operator ty a loop body adds: with a clone of the kernel of its
\* cache, or without kernel where the loop has no cache.
fused_op(ty, cache) ==
    IF cache = "none" THEN Op(ty)
    ELSE [ty |-> ty, dim |-> 0, kernel |-> get_or_compile(cache)]

\* The body of for _ in s.search(graph) { .. } for the match (mul, sum_reduce):
\* it skips the match if the Mul is pinned and rewrites it if not.  ty is the
\* fused operator; cache is the kernel cache the body fills ("none" if it has
\* none).
LoopBody(mul, sum_reduce, ty, mul_refs, cache) ==
    IF pinned(graph, mul)
    THEN /\ graph' = graph
         /\ pass' = [pass EXCEPT
               !.cursor = <<mul, sum_reduce>>, !.last = "skip",
               !.skipped = Append(@, [run |-> pass.run, pattern |-> pass.pattern,
                                      mul |-> mul, sum_reduce |-> sum_reduce])]
    ELSE /\ graph' = rewrite(graph, mul, sum_reduce,
                             undo_expansions(get_sources(graph, mul)),
                             fused_op(ty, cache), mul_refs)
         /\ pass' = [pass EXCEPT
               !.cursor = <<mul, sum_reduce>>, !.last = "rewrite",
               !.matmul = IF cache = "2d" THEN get_or_compile(cache) ELSE @,
               !.batched_matmul = IF cache = "batched" THEN get_or_compile(cache) ELSE @,
               !.kernels = IF cache # "none" /\ get_or_compile(cache) > @
                           THEN get_or_compile(cache) ELSE @,
               !.compiled = IF cache # "none" /\ get_or_compile(cache) # cached(cache)
                            THEN [@ EXCEPT ![cache] = @ + 1] ELSE @,
               !.log = Append(@, [run |-> pass.run, pattern |-> pass.pattern,
                                  mul |-> mul, sum_reduce |-> sum_reduce,
                                  new_op |-> graph.next_id,
                                  kernel |-> IF cache = "none" THEN 0
                                             ELSE get_or_compile(cache),
                                  before |-> Contents(graph)])]

\* One iteration of for _ in s.search(graph) { .. }: the search gives its next
\* match and the body runs on it.
Iteration(sel, ty, mul_refs, cache) ==
    /\ \E q \in search_next(graph, sel, pass.cursor) :
           LoopBody(q[1], q[2], ty, mul_refs, cache)
    /\ UNCHANGED <<tracker_vars, sd>>

\* MetalMatMulCompiler::compile, the loop of the 2D pattern.
MetalMatmul2D ==
    /\ pass.backend = "metal" /\ pass.pattern = "2d"
    /\ Iteration(Sel2D, "MetalMatmul2D", FALSE, "2d")

\* MetalMatMulCompiler::compile, the loop of the batched pattern.
MetalBatchMatmul2D ==
    /\ pass.backend = "metal" /\ pass.pattern = "batched"
    /\ Iteration(SelBatched, "MetalBatchMatmul2D", FALSE, "batched")

\* MetalMatMulCompiler::compile, the loop of the attention pattern.
MetalAttnMatmul2D ==
    /\ pass.backend = "metal" /\ pass.pattern = "attn"
    /\ Iteration(SelAttn, "MetalAttnMatmul2D", FALSE, "none")

\* CudaMatMulOptimizer::optimize, its one loop.
CudaMatmul2D ==
    /\ pass.backend = "cuda" /\ pass.pattern = "2d"
    /\ Iteration(Sel2D, "CudaMatmul2D", TRUE, "none")

\* The selector of the search in progress.
selector ==
    CASE pass.pattern = "2d"      -> Sel2D
      [] pass.pattern = "batched" -> SelBatched
      [] OTHER                    -> SelAttn

\* The search in progress gives no further match: the loop ends, and the
\* compiler goes on to its next pattern or returns.
SearchEnds ==
    /\ pass.pattern # "done"
    /\ search_next(graph, selector, pass.cursor) = {}
    /\ pass' = [pass EXCEPT
          !.pattern = CASE pass.backend = "metal" /\ pass.pattern = "2d" -> "batched"
                        [] pass.backend = "metal" /\ pass.pattern = "batched" -> "attn"
                        [] OTHER -> "done",
          !.cursor = <<-1, -1>>,
          !.last = "end"]
    /\ UNCHANGED graph
    /\ UNCHANGED <<tracker_vars, sd>>

\* The compiler is run once more on the graph it has returned.
Recompile ==
    /\ pass.pattern = "done"
    /\ pass.run < MaxRuns
    /\ pass' = [pass EXCEPT !.pattern = "2d", !.cursor = <<-1, -1>>,
                            !.matmul = 0, !.batched_matmul = 0,
                            !.compiled = [v \in {"2d", "batched"} |-> 0],
                            !.run = @ + 1, !.start = Contents(graph), !.last = "start"]
    /\ UNCHANGED graph
    /\ UNCHANGED <<tracker_vars, sd>>

\* ------------------------------------------------- graphs given to a pass

\* The kinds of Mul in the graphs: one per pattern, and a plain element-wise
\* one that no pattern matches.
MulKinds == {"2d", "batched", "attn", "plain"}

\* The tracker of input k (0 or 1) of a Mul of kind c: for the three patterns
\* the broadcast operands [A, C(fake), B] | [A(fake), C, B] with A = 2, C = 3,
\* B = 4 (behind batch axes of size 2), each with its axes in storage order.
mul_input(c, k) ==
    CASE c = "2d" /\ k = 0 -> add_dim(expand(new(<<2>>), 1, 3), 2, 4)
      [] c = "2d" /\ k = 1 -> add_dim(add_dim(fake(<<2>>), 1, 3), 2, 4)
      [] c = "batched" /\ k = 0 -> add_dim(expand(new(<<2, 2>>), 2, 3), 3, 4)
      [] c = "batched" /\ k = 1 -> add_dim(add_dim(fake(<<2, 2>>), 2, 3), 3, 4)
      [] c = "attn" /\ k = 0 -> add_dim(expand(new(<<2, 2, 2>>), 3, 3), 4, 4)
      [] c = "attn" /\ k = 1 ->
             add_dim(add_dim(expand(new(<<2, 2>>), 2, 2), 3, 3), 4, 4)
      [] OTHER -> new(<<2, 3, 4>>)

\* The consumer of kind k of a Mul of kind c: "reduce" is the SumReduce over
\* the last axis, "reduce0" the one over axis 0, "exp" a unary operator.
consumer(c, k) ==
    CASE k = "reduce"  -> SumReduce(len(mul_input(c, 0)) - 1)
      [] k = "reduce0" -> SumReduce(0)
      [] OTHER         -> Op("Exp")

\* An edge source: output 0 of node n seen through tracker tr.
From(n, tr) == [node |-> n, out |-> 0, tr |-> tr]

\* The sets of at most MaxPinned of the Mul and SumReduce nodes of G.
PinSets(G) ==
    {S \in SUBSET {n \in Nodes(G) : G.ops[n].ty \in {"Mul", "SumReduce"}} :
        Cardinality(S) <= MaxPinned}

\* G with a Mul of kind c on node src and node 1.
with_mul(G, c, src) ==
    add_op(G, Op("Mul"), <<From(src, mul_input(c, 0)), From(1, mul_input(c, 1))>>)

\* G with a consumer of kind k of the Mul mul of kind c, unless k is "none".
with_consumer(G, mul, c, k) ==
    IF k = "none" THEN G
    ELSE add_op(G, consumer(c, k), <<From(mul, new(shape(mul_input(c, 0))))>>)

\* G with a second Mul of kind c on node src and node 1 and a SumReduce on
\* it, unless c is "none".
with_second(G, c, src) ==
    IF c = "none" THEN G
    ELSE with_consumer(with_mul(G, c, src), G.next_id, c, "reduce")

\* The nodes of S in the order of their ids.
in_order(S) ==
    [k \in 1..Cardinality(S) |-> CHOOSE n \in S : Cardinality({m \in S : m < n}) = k - 1]

\* G with a last node that takes the results of all consumers.
with_results(G, results) ==
    add_op(G, Op("Function"), [k \in 1..Len(results) |-> From(results[k], new(<<2, 3>>))])

\* The graph with inputs 0 and 1, Mul 2 of kind c1 on them, its consumer 3 of
\* kind k1, a second consumer of kind k2 unless k2 is "none", unless c2 is
\* "none" a second Mul of kind c2 on node src (0 or 3) and node 1 with a
\* SumReduce on it, and a last node that takes all results.
InitGraph(c1, k1, k2, c2, src) ==
    \E G \in {with_second(
                with_consumer(
                  with_consumer(
                    with_mul(add_op(add_op(EmptyGraph, Op("Input"), << >>),
                                    Op("Input"), << >>),
                             c1, 0),
                    2, c1, k1),
                  2, c1, k2),
                c2, src)} :
        \E results \in {in_order({n \in Nodes(G) : n >= 3 /\ G.ops[n].ty # "Mul"})} :
            \E nd \in PinSets(G), tr \in PinSets(G) :
                graph = [with_results(G, results) EXCEPT
                            !.no_delete = nd, !.to_retrieve = tr]

InitPass ==
    /\ NoTracker
    /\ sd = [NewSerializer(<< >>, 0) EXCEPT !.phase = "none"]
    /\ \E c1 \in MulKinds, k1 \in {"reduce", "reduce0", "exp"},
          k2 \in {"none", "reduce", "exp"}, c2 \in {"none", "2d", "batched"},
          src \in {0, 3} :
          /\ c2 = "none" => src = 0
          /\ InitGraph(c1, k1, k2, c2, src)
    /\ \E backend \in {"metal", "cuda"} : pass = NewPass(backend, graph)

NextPass ==
    \/ MetalMatmul2D
    \/ MetalBatchMatmul2D
    \/ MetalAttnMatmul2D
    \/ CudaMatmul2D
    \/ SearchEnds
    \/ Recompile

SpecPass == InitPass /\ [][NextPass]_vars

\* ------------------------------------ the Metal compiler on several graphs

\* The graphs a later invocation of the compiler is given: inputs 0 and 1, a
\* Mul of the 2D or of the batched pattern on them, its SumReduce and a last
\* node that takes the result, with at most MaxPinned nodes in no_delete.
NextGraphs ==
    UNION {{[with_results(G, <<3>>) EXCEPT !.no_delete = nd] : nd \in PinSets(G)} :
           G \in {with_consumer(
                     with_mul(add_op(add_op(EmptyGraph, Op("Input"), << >>),
                                     Op("Input"), << >>),
                              c, 0),
                     2, c, "reduce") : c \in {"2d", "batched"}}}

\* MetalMatMulCompiler::compile is called on a graph.
InitCache ==
    /\ InitPass
    /\ pass.backend = "metal"

\* MetalMatMulCompiler::compile has returned and is called on another graph:
\* its locals matmul and batched_matmul start as None.
CompileNext ==
    /\ pass.pattern = "done"
    /\ pass.run < MaxRuns
    /\ graph' \in NextGraphs
    /\ pass' = [pass EXCEPT !.pattern = "2d", !.cursor = <<-1, -1>>,
                            !.matmul = 0, !.batched_matmul = 0,
                            !.compiled = [v \in {"2d", "batched"} |-> 0],
                            !.run = @ + 1, !.start = Contents(graph'), !.last = "start"]
    /\ UNCHANGED <<tracker_vars, sd>>

NextCache ==
    \/ MetalMatmul2D
    \/ MetalBatchMatmul2D
    \/ MetalAttnMatmul2D
    \/ SearchEnds
    \/ CompileNext

SpecCache == InitCache /\ [][NextCache]_vars

\* ------------------------------------- operands with permuted trackers

\* The ways an operand of a Mul is brought to the shape of the pattern:
\* "inner" as mul_input does, with the axes in physical order; "expand" by
\* expand (and permute) of the stored tensor, which puts the broadcast axis
\* last in physical order; "swap" as "inner" with the last two logical axes
\* exchanged by permute.
Forms == {"inner", "expand", "swap"}

\* The axes argument of permute that exchanges the last two of n axes.
swap_last(n) ==
    [k \in 1..n |-> IF k = n - 1 THEN n - 1 ELSE IF k = n THEN n - 2 ELSE k - 1]

\* The tracker of operand k (0 or 1) of a Mul of kind c in form f.
operand(c, k, f) ==
    CASE f = "inner" -> mul_input(c, k)
      [] f = "swap"  -> permute(mul_input(c, k), swap_last(len(mul_input(c, k))))
      [] c = "2d" /\ k = 0 -> expand(new(<<2, 4>>), 1, 3)
      [] c = "2d" /\ k = 1 -> expand(permute(new(<<4, 3>>), <<1, 0>>), 0, 2)
      [] c = "batched" /\ k = 0 -> expand(new(<<2, 2, 4>>), 2, 3)
      [] c = "batched" /\ k = 1 ->
             expand(expand(permute(new(<<4, 3>>), <<1, 0>>), 0, 2), 0, 2)
      [] c = "attn" /\ k = 0 -> expand(new(<<2, 2, 2, 4>>), 3, 3)
      [] OTHER -> expand(permute(new(<<2, 2, 4, 3>>), <<0, 1, 3, 2>>), 2, 2)

\* G with a Mul of nodes 0 and 1 under the trackers tr0 and tr1 and the
\* SumReduce over the last axis on it.
with_matmul(G, tr0, tr1) ==
    add_op(add_op(G, Op("Mul"), <<From(0, tr0), From(1, tr1)>>),
           SumReduce(len(tr0) - 1), <<From(G.next_id, new(shape(tr0)))>>)

\* A compiler is called on a graph of inputs 0 and 1, Mul 2 of them with
\* operands in any of the forms, SumReduce 3 over the last axis and a last
\* node that takes the result.
InitForms ==
    /\ NoTracker
    /\ sd = [NewSerializer(<< >>, 0) EXCEPT !.phase = "none"]
    /\ \E c \in {"2d", "batched", "attn"}, f0 \in Forms, f1 \in Forms :
          \E G \in {with_results(
                      with_matmul(add_op(add_op(EmptyGraph, Op("Input"), << >>),
                                         Op("Input"), << >>),
                                  operand(c, 0, f0), operand(c, 1, f1)),
                      <<3>>)} :
              \E nd \in PinSets(G), tr \in PinSets(G) :
                  graph = [G EXCEPT !.no_delete = nd, !.to_retrieve = tr]
    /\ \E backend \in {"metal", "cuda"} : pass = NewPass(backend, graph)

SpecForms == InitForms /\ [][NextPass]_vars

\* ------------------------------------------------- state dict save / load

\* The names given to Serializer::tensor and Serializer::module.
Names == {"", "w", "a", "a/w"}
\* The node ids of the tensors of the model in the graph it was built in.
TensorIds == 0..(MaxTensors - 1)
\* The tensors' data.
TensorVals == {7, 8}

\* current_path.join("/")
RECURSIVE join(_)
join(path) ==
    IF path = << >> THEN ""
    ELSE IF Len(path) = 1 THEN path[1]
    ELSE path[1] \o "/" \o join(Tail(path))

\* The map m with key k set to v (insert), and without key k (remove).
insert(m, k, v) == (k :> v) @@ m
remove(m, k) == [x \in DOMAIN m \ {k} |-> m[x]]

\* Serializer::tensor(name, tensor): the id goes in under the current path
\* with the name, if not empty, as its last component.
tensor(ser, name, id) ==
    LET path == IF name # "" THEN Append(ser.current_path, name) ELSE ser.current_path
    IN  [ser EXCEPT !.state = insert(ser.state, join(path), id)]

\* state_dict(model) for the model built in the second graph: the same keys,
\* each with the node id the tensor has there.
state_dict(ser) == [k \in DOMAIN ser.state |-> ser.state[k] + ser.offset]

\* One load iteration that puts the tensor in but does not pin the node.
load_entry_no_pin(cx, n, t) ==
    [cx EXCEPT !.tensors = insert(cx.tensors, <<n, 0>>, t)]

\* The body of the loop of StateDictLoader::load for node n and its tensor t.
load_entry(cx, n, t) ==
    [cx EXCEPT !.no_delete = cx.no_delete \cup {n},
               !.tensors = insert(cx.tensors, <<n, 0>>, t)]

InitDict ==
    /\ NoTracker
    /\ graph = EmptyGraph
    /\ pass = [NewPass("none", EmptyGraph) EXCEPT !.pattern = "done"]
    /\ \E vals \in [TensorIds -> TensorVals], offset \in {0, 1} :
           sd = NewSerializer([x \in {<<n, 0>> : n \in TensorIds} |-> vals[x[1]]], offset)

\* The model's serialize calls Serializer::tensor.
SerializeTensor ==
    \E name \in Names, id \in TensorIds :
        /\ sd.phase = "serialize"
        /\ sd.calls < MaxCalls
        /\ sd' = [tensor(sd, name, id) EXCEPT !.calls = @ + 1]
        /\ UNCHANGED <<tracker_vars, graph_vars>>

\* The model's serialize calls Serializer::module, which goes into the
\* serialize of the module.
SerializeModule ==
    \E name \in Names :
        /\ sd.phase = "serialize"
        /\ sd.calls < MaxCalls
        /\ sd' = [sd EXCEPT !.modules = Append(@, name),
                            !.current_path = IF name # "" THEN Append(@, name) ELSE @,
                            !.calls = @ + 1]
        /\ UNCHANGED <<tracker_vars, graph_vars>>

\* The serialize of a module returns to Serializer::module.
ModuleReturns ==
    /\ sd.phase = "serialize"
    /\ sd.modules # << >>
    /\ sd' = [sd EXCEPT
          !.modules = SubSeq(@, 1, Len(@) - 1),
          !.current_path = IF sd.modules[Len(sd.modules)] # ""
                           THEN SubSeq(@, 1, Len(@) - 1) ELSE @]
    /\ UNCHANGED <<tracker_vars, graph_vars>>

\* StateDictSaver::save once the model is serialized: each key gets the tensor
\* get_tensor takes out of the graph for its node; the unwrap panics when a
\* node registered under two keys has already given its tensor.
Save ==
    /\ sd.phase = "serialize"
    /\ sd.modules = << >>
    /\ IF \E j, k \in DOMAIN sd.state : j # k /\ sd.state[j] = sd.state[k]
       THEN sd' = [sd EXCEPT !.phase = "panicked"]
       ELSE sd' = [sd EXCEPT
              !.phase = "saved",
              !.saved = [k \in DOMAIN sd.state |-> sd.tensors[<<sd.state[k], 0>>]],
              !.tensors = [x \in DOMAIN sd.tensors \
                               {<<sd.state[k], 0>> : k \in DOMAIN sd.state} |-> sd.tensors[x]]]
    /\ UNCHANGED <<tracker_vars, graph_vars>>

\* StateDictLoader::new(state_dict).load(model, graph) is called on the model
\* built again in a new graph, with the dictionary save returned or with that
\* dictionary less one key.
Load ==
    /\ sd.phase = "saved"
    /\ \E d \in {sd.saved} \cup {remove(sd.saved, k) : k \in DOMAIN sd.saved} :
           sd' = [sd EXCEPT !.given = d,
                            !.loader = d,
                            !.todo = DOMAIN state_dict(sd),
                            !.phase = IF DOMAIN state_dict(sd) = {} THEN "loaded"
                                      ELSE "loading"]
    /\ UNCHANGED <<tracker_vars, graph_vars>>

\* One iteration of the loop of load, for a key of the model's state dict the
\* loop has not had yet: the unwrap panics if the dictionary lacks the key.
LoadEntry ==
    \E s \in sd.todo :
        /\ sd.phase = "loading"
        /\ IF s \notin DOMAIN sd.loader
           THEN sd' = [sd EXCEPT !.phase = "panicked"]
           ELSE sd' = [sd EXCEPT
                  !.loader = remove(@, s),
                  !.cx = load_entry(@, state_dict(sd)[s], sd.loader[s]),
                  !.todo = @ \ {s},
                  !.phase = IF sd.todo = {s} THEN "loaded" ELSE "loading"]
        /\ UNCHANGED <<tracker_vars, graph_vars>>

NextDict ==
    \/ SerializeTensor
    \/ SerializeModule
    \/ ModuleReturns
    \/ Save
    \/ Load
    \/ LoadEntry

SpecDict == InitDict /\ [][NextDict]_vars

\* ---------------------------------------------------------- claim helpers

\* The physical axes of s.
Axes(s) == 0..(Len(s.dims) - 1)
\* The presented positions of s.
Positions(s) == 0..(Len(s.indexes) - 1)
\* Physical axis i carries a non-trivial slice / a non-zero padding.
SlicedAxis(s, i) == At(s.slices, i)[1] # 0 \/ At(s.slices, i)[2] # I32_MAX
PaddedAxis(s, i) == At(s.padding, i)[1] # 0 \/ At(s.padding, i)[2] # 0
\* The inverse of the permutation p of 0..n-1.
inverse(p) == [k \in 1..Len(p) |-> (CHOOSE j \in 1..Len(p) : p[j] = k - 1) - 1]
\* The identity permutation of 0..n-1.
identity(n) == [k \in 1..n |-> k - 1]

\* ------------------------------------------------------------------- C1

\* C1: after any sequence of operations from new(dims) or fake(dims), the five
\* arrays dims, indexes, fake, slices and padding have the same length and
\* indexes is a permutation of 0..len-1.
C1_ParallelArrays ==
    /\ Len(st.indexes) = Len(st.dims)
    /\ Len(st.fake) = Len(st.dims)
    /\ Len(st.slices) = Len(st.dims)
    /\ Len(st.padding) = Len(st.dims)
    /\ {st.indexes[k] : k \in 1..Len(st.indexes)} = 0..(Len(st.dims) - 1)

\* remove_dim has taken out an axis that was not the last physical one of a
\* permuted tracker, so that a surviving index was decremented.
C1_Witness ==
    /\ op.name = "remove_dim"
    /\ nops = MaxOps
    /\ pre.indexes # identity(Len(pre.indexes))
    /\ \E k \in Positions(pre) : At(pre.indexes, k) > At(pre.indexes, op.axis)

\* ------------------------------------------------------------------- C2

C3_PadFailsOnSlicedAxis ==
    op.name = "pad" =>
        IF \E k \in Positions(pre) :
               /\ At(op.vec, k) # <<0, 0>>
               /\ SlicedAxis(pre, At(pre.indexes, k))
        THEN err = "InvalidCompose"
        ELSE /\ err = "none"
             /\ \A k \in Positions(pre) :
                   LET i == At(pre.indexes, k)
                   IN  At(st.padding, i) =
                           <<At(pre.padding, i)[1] + At(op.vec, k)[1],
                             At(pre.padding, i)[2] + At(op.vec, k)[2]>>

\* ------------------------------------------------------------------- C4

\* C4: for every tracker with len < 6, every axis k <= len and every dim d,
\* add_dim(k, d) (or expand(k, d)) followed by remove_dim(k) returns d and
\* restores all five arrays.
C4_AddRemoveRestores ==
    len(st) < Capacity =>
        \A k \in 0..len(st), d \in DimVals :
            /\ remove_dim(add_dim(st, k, d), k) = [s |-> st, ret |-> d]
            /\ remove_dim(expand(st, k, d), k) = [s |-> st, ret |-> d]

\* remove_dim(k) has just undone an add_dim(k, d) on a tracker that is permuted
\* and has more than one axis, and returned d.
C4_Witness ==
    /\ op.name = "remove_dim"
    /\ len(st) >= 2
    /\ st.indexes # identity(len(st))
    /\ op.axis < len(st)
    /\ pre = add_dim(st, op.axis, op.dim)

\* ------------------------------------------------------------------- C5

\* C5: for every permutation p of 0..len-1, permute(p) followed by
\* permute(inverse(p)) gives back the tracker, and permute changes indexes
\* only.
C5_PermuteInverse ==
    \A p \in PermsOf(len(st)) :
        /\ permute(permute(st, p), inverse(p)) = st
        /\ permute(st, p) = [st EXCEPT !.indexes = permute(st, p).indexes]

\* permute(inverse(p)) has just undone permute(p), for a p that is not its own
\* inverse, on a tracker that is sliced.
C5_Witness ==
    /\ op.name = "permute"
    /\ nops = MaxOps
    /\ is_sliced(st)
    /\ \E p \in PermsOf(len(st)) :
          /\ inverse(p) # p
          /\ op.vec = inverse(p)
          /\ pre = permute(st, p)
          /\ pre # st

\* ------------------------------------------------------------------- C6

\* C6: contiguous() is idempotent, and its result satisfies is_contiguous() and
\* is neither sliced nor padded.
C6_ContiguousIdempotent ==
    LET c == contiguous(st)
    IN  /\ contiguous(c) = c
        /\ is_contiguous(c)
        /\ ~is_sliced(c)
        /\ ~is_padded(c)

\* contiguous() has been applied to a tracker that was sliced and padded, and
\* applying it again changes nothing.
C6_Witness ==
    /\ op.name = "contiguous"
    /\ is_sliced(pre)
    /\ is_padded(pre)
    /\ st # pre
    /\ contiguous(st) = st

\* ------------------------------------------------------------------- C7

\* The product of the entries of a sequence of integers.
RECURSIVE Product(_)
Product(seq) == IF seq = <<>> THEN 1 ELSE Head(seq) * Product(Tail(seq))

\* C7 as stated: shape() has len entries, entry k is
\* min(dims[i] + before_i + after_i, hi_i) - lo_i with i = indexes[k], and the
\* product of shape() is n_elements() whenever that product is non-zero.
C7_ShapeIsExtent ==
    /\ Len(shape(st)) = len(st)
    /\ \A k \in Positions(st) :
          LET i == At(st.indexes, k)
          IN  At(shape(st), k) =
                  Min(At(st.dims, i) + At(st.padding, i)[1] + At(st.padding, i)[2],
                      At(st.slices, i)[2]) - At(st.slices, i)[1]
    /\ Product(shape(st)) # 0 => Product(shape(st)) = n_elements(st)

\* ------------------------------------------------------------------- C8

\* C8 as stated: contiguous() is a fresh tracker whose dims equal shape() entry
\* by entry, with identity indexes, no fake axis, no slice and no padding.
C8_ContiguousDimsAreShape ==
    LET c == contiguous(st)
    IN  /\ c.dims = shape(st)
        /\ c = new(c.dims)

\* ------------------------------------------------------------------- C9

\* The row-major coordinate of logical index z along presented position k of a
\* tensor of shape sh.
coord(sh, z, k) == (z \div Product(SubSeq(sh, k + 2, Len(sh)))) % At(sh, k)

\* The sum over the presented positions k, k+1, .. of coord * strides.
RECURSIVE StrideSum(_, _, _)
StrideSum(s, z, k) ==
    IF k >= len(s) THEN 0
    ELSE coord(shape(s), z, k) * At(strides(s), k) + StrideSum(s, z, k + 1)

\* C9: for every tracker with no fake axis, no slice and no padding (any
\* permutation) and every 0 <= z < n_elements, index_expression at z is the sum
\* over the presented axes of coord_k(z) * strides()[k], with coord the
\* row-major decomposition of z over shape(); it is z when the tracker is
\* contiguous.
C9_IndexMatchesStrides ==
    ((\A i \in Axes(st) : ~At(st.fake, i)) /\ ~is_sliced(st) /\ ~is_padded(st)) =>
        \A z \in 0..(n_elements(st) - 1) :
            /\ index_expression(st, z) = StrideSum(st, z, 0)
            /\ is_contiguous(st) => index_expression(st, z) = z

\* The tracker is new([3, 4]).permute([1, 0]): shape [4, 3], strides [1, 4],
\* and logical index 5 = (1, 2) maps to 1 * 1 + 2 * 4 = 9.
C9_Witness ==
    /\ op.name = "permute"
    /\ st = permute(new(<<3, 4>>), <<1, 0>>)
    /\ shape(st) = <<4, 3>>
    /\ strides(st) = <<1, 4>>
    /\ index_expression(st, 5) = 9

\* ------------------------------------------------------------------ C10

\* Every axis of s has a positive extent, so that no division or remainder of
\* index_expression and valid_expression has a zero divisor.
NonEmpty(s) == \A i \in Axes(s) : logical_sh(s, i) > 0

logical_shape(s) == [k \in 1..Len(s.indexes) |-> logical_sh(s, At(s.indexes, k - 1))]

\* The number of logical indexes one step along presented position k spans.
span(s, k) == Product(SubSeq(logical_shape(s), k + 2, len(s)))

\* Logical index z with its coordinate along presented position k set to 0.
at_origin(s, z, k) == z - coord(logical_shape(s), z, k) * span(s, k)

\* C11: a fake axis adds its dim to shape() but never changes the physical
\* offset: expand(axis, dim) makes shape()[axis] = dim, and for every tracker
\* whose axes all have a positive extent and every fake axis of it, two logical
\* indexes whose coordinates differ only along that axis have the same
\* index_expression (each equals the one with that coordinate 0).  For
\* new([3]).expand(1, 5), shape() is [3, 5] and logical (r, c) maps to r.
C11_FakeAxisKeepsOffset ==
    /\ op.name = "expand" => At(shape(st), op.axis) = op.dim
    /\ NonEmpty(st) =>
         \A k \in Positions(st) :
             At(st.fake, At(st.indexes, k)) =>
                 \A z \in 0..(Product(logical_shape(st)) - 1) :
                     index_expression(st, z) = index_expression(st, at_origin(st, z, k))
    /\ LET e == expand(new(<<3>>), 1, 5)
       IN  /\ shape(e) = <<3, 5>>
           /\ \A r \in 0..2, c \in 0..4 : index_expression(e, r * 5 + c) = r

\* expand(1, 2) has been applied to new([3]) and a permute has moved the fake
\* axis to the front: shape() is [2, 3] and logical (c, r) maps to physical r
\* for both values of c.
C11_Witness ==
    /\ op.name = "permute"
    /\ st = permute(expand(new(<<3>>), 1, 2), <<1, 0>>)
    /\ shape(st) = <<2, 3>>
    /\ At(st.fake, At(st.indexes, 0))
    /\ \A c \in 0..1, r \in 0..2 : index_expression(st, c * 3 + r) = r

\* ------------------------------------------------------------------ C12

\* The product of f[i] over the i of the set I.
RECURSIVE ProductOver(_, _)
ProductOver(f, I) ==
    IF I = {} THEN 1
    ELSE LET i == CHOOSE j \in I : TRUE IN f[i] * ProductOver(f, I \ {i})

\* r, or 1 when r is 0.
OneIfZero(r) == IF r = 0 THEN 1 ELSE r

\* C12: n_physical_elements() is the product of dims over the axes that are not
\* fake, n_elements() is the product of the padded and sliced extents of all
\* axes, and either count is 1 instead of 0 when its product is 0; so for every
\* tracker built by fake(dims) (all axes fake, no slice, no padding)
\* n_physical_elements() is 1 and n_elements() is the product of its dims (1 if
\* that is 0).
C12_ElementCounts ==
    LET real == {k \in 1..Len(st.dims) : ~st.fake[k]}
        all  == 1..Len(st.dims)
        ext  == [k \in all |-> logical_sh(st, k - 1)]
    IN  /\ n_physical_elements(st) = OneIfZero(ProductOver(st.dims, real))
        /\ n_elements(st) = OneIfZero(ProductOver(ext, all))
        /\ (real = {} /\ ~is_sliced(st) /\ ~is_padded(st)) =>
              /\ n_physical_elements(st) = 1
              /\ n_elements(st) = OneIfZero(ProductOver(st.dims, all))

\* The tracker is fake([3, 2]) with a fake axis of dim 0 expanded in: it has
\* three fake axes, n_physical_elements() is 1 and n_elements() is 1 although
\* the product of its dims is 0; before the call n_elements() was 6.
C12_Witness ==
    /\ op.name = "expand"
    /\ op.dim = 0
    /\ pre = fake(<<3, 2>>)
    /\ n_elements(pre) = 6
    /\ n_physical_elements(pre) = 1
    /\ \A k \in 1..Len(st.fake) : st.fake[k]
    /\ Len(st.dims) = 3
    /\ n_elements(st) = 1
    /\ n_physical_elements(st) = 1

\* ------------------------------------------------------------------ C20

\* The entry of shape() that presents physical axis i.
shape_of_axis(s, i) == At(shape(s), CHOOSE k \in Positions(s) : At(s.indexes, k) = i)

\* C20: a slice call sets, for the physical axis indexes[i] of its i-th bound
\* (s, e), lo' = max(lo, max(s, 0)) and hi' = min(hi, max(e, 0)) and leaves the
\* other axes' bounds as they are; hence at every slice or permute call no
\* axis's lower bound decreases, no axis's upper bound increases and the
\* shape() entry of no axis grows.
C20_SliceMonotone ==
    [][ /\ op'.name = "slice" =>
             \A k \in Positions(st) :
                 LET i  == At(st.indexes, k)
                     lo == At(st.slices, i)[1]
                     hi == At(st.slices, i)[2]
                 IN  At(st'.slices, i) =
                         IF k < Len(op'.vec)
                         THEN <<Max(lo, Max(At(op'.vec, k)[1], 0)),
                                Min(hi, Max(At(op'.vec, k)[2], 0))>>
                         ELSE <<lo, hi>>
        /\ op'.name \in {"slice", "permute"} =>
             /\ Axes(st') = Axes(st)
             /\ \A i \in Axes(st) :
                    /\ At(st'.slices, i)[1] >= At(st.slices, i)[1]
                    /\ At(st'.slices, i)[2] <= At(st.slices, i)[2]
                    /\ shape_of_axis(st', i) <= shape_of_axis(st, i)
      ]_vars

\* A third call, slice, on a tracker that has been sliced and is not in its
\* original axis order: it gives the axis presented first, which is not
\* physical axis 0 and already has a lower bound of 1, a negative start, and
\* the lower bound stays 1 while the upper bound comes down.
C20_Witness ==
    /\ op.name = "slice"
    /\ nops = 3
    /\ len(st) >= 2
    /\ Len(op.vec) >= 1
    /\ At(op.vec, 0)[1] < 0
    /\ LET i == At(pre.indexes, 0)
       IN  /\ i # 0
           /\ At(pre.slices, i) = <<1, I32_MAX>>
           /\ At(st.slices, i) = <<1, 2>>
           /\ shape_of_axis(st, i) < shape_of_axis(pre, i)

\* ------------------------------------------------------------------ C13

\* The operators the passes put in for a match.
Fused == {"MetalMatmul2D", "MetalBatchMatmul2D", "MetalAttnMatmul2D", "CudaMatmul2D"}

\* The last rewrite of the pass.
LastRewrite == pass.log[Len(pass.log)]

\* C13: right after the rewrite of a match of the 2D pattern whose Mul is not
\* pinned, the Mul and the SumReduce are gone and the one node added is the
\* fused matmul; its inputs are exactly two, input 0 from the first source of
\* the Mul with that tracker after remove_dim(1) and input 1 from the second
\* source with that tracker after remove_dim(0) and permute([1, 0]); and every
\* edge that left the SumReduce leaves the fused node with the same weight.
\* The nodes of every rewritten match stay out of the graph, and the graph has
\* one fused node per rewrite.
C13_Matmul2DRewrite ==
    /\ (pass.last = "rewrite" /\ LastRewrite.pattern = "2d") =>
          LET B          == LastRewrite.before
              mul        == LastRewrite.mul
              sum_reduce == LastRewrite.sum_reduce
              new_op     == LastRewrite.new_op
          IN  /\ mul \notin B.no_delete
              /\ new_op \notin DOMAIN B.ops
              /\ Nodes(graph) = (DOMAIN B.ops \ {mul, sum_reduce}) \cup {new_op}
              /\ graph.ops[new_op].ty \in {"MetalMatmul2D", "CudaMatmul2D"}
              /\ \A n \in Nodes(graph) \ {new_op} : graph.ops[n] = B.ops[n]
              /\ Incoming(graph, new_op) =
                    {[src |-> x.src, out |-> 0, dst |-> new_op, inp |-> x.inp,
                      tr  |-> IF x.inp = 0 THEN remove_dim(x.tr, 1).s
                              ELSE permute(remove_dim(x.tr, 0).s, <<1, 0>>)] :
                     x \in {y \in B.edges : y.dst = mul}}
              /\ Cardinality(Incoming(graph, new_op)) = 2
              /\ Outgoing(graph, new_op) =
                    {[x EXCEPT !.src = new_op] : x \in {y \in B.edges : y.src = sum_reduce}}
    /\ \A k \in 1..Len(pass.log) :
          pass.log[k].mul \notin Nodes(graph) /\ pass.log[k].sum_reduce \notin Nodes(graph)
    /\ Cardinality({n \in Nodes(graph) : graph.ops[n].ty \in Fused}) = Len(pass.log)

\* A match of the 2D pattern has just been rewritten whose SumReduce fed two
\* nodes: the fused node reads [2, 4] and [4, 3] operands and feeds both.
C13_Witness ==
    /\ pass.last = "rewrite"
    /\ pass.run = 1
    /\ LastRewrite.pattern = "2d"
    /\ Cardinality({y \in LastRewrite.before.edges : y.src = LastRewrite.sum_reduce}) = 2
    /\ Cardinality(Outgoing(graph, LastRewrite.new_op)) = 2
    /\ \E x \in Incoming(graph, LastRewrite.new_op) : x.inp = 0 /\ shape(x.tr) = <<2, 4>>
    /\ \E x \in Incoming(graph, LastRewrite.new_op) : x.inp = 1 /\ shape(x.tr) = <<4, 3>>

\* ------------------------------------------------------------------ C14

\* The selectors the compiler of the pass searches with.
Selectors ==
    IF pass.backend = "metal" THEN {Sel2D, SelBatched, SelAttn} ELSE {Sel2D}

\* The matches in C (the contents of a graph) of the selectors of the pass.
MatchesIn(C) ==
    {q \in (DOMAIN C.ops) \X (DOMAIN C.ops) :
        \E sel \in Selectors : matches(C, sel, q[1], q[2])}

\* C14: a match whose Mul is in no_delete is skipped: the step of the loop
\* that gets it changes no node, no edge and none of id_remap, no_delete and
\* to_retrieve; a pass on a graph all of whose matches are pinned returns the
\* graph as it got it; and every match of the graph whose Mul is not pinned is
\* still rewritten (its Mul is gone when the pass returns).
C14_PinnedMatchSkipped ==
    /\ [][ (/\ pass.pattern # "done"
            /\ \E q \in search_next(graph, selector, pass.cursor) :
                   q[1] \in graph.no_delete)
           => graph' = graph ]_vars
    /\ [](pass.pattern = "done" =>
            /\ (\A q \in MatchesIn(pass.start) : q[1] \in pass.start.no_delete)
                  => Contents(graph) = pass.start
            /\ \A q \in MatchesIn(pass.start) :
                  q[1] \notin pass.start.no_delete => q[1] \notin Nodes(graph))

\* The first pass has returned from a graph with two matches: the one whose
\* Mul is pinned was skipped and is still in the graph with its SumReduce, the
\* other was rewritten.
C14_Witness ==
    /\ pass.pattern = "done"
    /\ pass.run = 1
    /\ Len(pass.skipped) = 1
    /\ Len(pass.log) = 1
    /\ pass.skipped[1].mul \in graph.no_delete
    /\ matches(graph, Sel2D, pass.skipped[1].mul, pass.skipped[1].sum_reduce)
    /\ Cardinality(MatchesIn(pass.start)) = 2

\* ------------------------------------------------------------------ C15

\* C15: the matmul pass is idempotent: a run of the compiler on the graph an
\* earlier run returned rewrites no match, so that at every point of it the
\* nodes, edges, id_remap, no_delete and to_retrieve are those the earlier run
\* returned.
C15_PassIdempotent ==
    /\ pass.run >= 2 => Contents(graph) = pass.start
    /\ \A k \in 1..Len(pass.log) : pass.log[k].run = 1

\* The second run has returned; the first one had rewritten a match of the 2D
\* pattern and a match of the batched pattern.
C15_Witness ==
    /\ pass.run = 2
    /\ pass.pattern = "done"
    /\ Len(pass.log) = 2
    /\ pass.log[1].pattern = "2d"
    /\ pass.log[2].pattern = "batched"
    /\ Contents(graph) # LastRewrite.before

\* ------------------------------------------------------------------ C16

\* C16: a rewrite leaves everything outside the match as it was: every node
\* other than the matched Mul and SumReduce is still in the graph with its
\* operator and with all its input edges (same input index, same tracker, same
\* source), except that an input from the SumReduce now comes from the fused
\* node; so a second consumer of the Mul still has that input.
C16_OutsidePreserved ==
    pass.last = "rewrite" =>
        LET B          == LastRewrite.before
            mul        == LastRewrite.mul
            sum_reduce == LastRewrite.sum_reduce
            new_op     == LastRewrite.new_op
        IN  \A n \in DOMAIN B.ops \ {mul, sum_reduce} :
                /\ n \in Nodes(graph)
                /\ graph.ops[n] = B.ops[n]
                /\ Incoming(graph, n) =
                      {IF x.src = sum_reduce THEN [x EXCEPT !.src = new_op] ELSE x :
                       x \in {y \in B.edges : y.dst = n}}

\* ------------------------------------------------------------------ C17

\* The selector of pattern p.
SelectorOf(p) ==
    CASE p = "2d" -> Sel2D [] p = "batched" -> SelBatched [] OTHER -> SelAttn

\* The SumReduces other than that of rewrite e that matched with its Mul when
\* e was done.
Siblings(e) ==
    {r \in DOMAIN e.before.ops :
        r # e.sum_reduce /\ matches(e.before, SelectorOf(e.pattern), e.mul, r)}

\* C17: when one Mul feeds several SumReduces that each satisfy the pattern,
\* only the first match in node-id order claims the Mul: no two rewrites have
\* the same Mul, the SumReduce of the rewrite comes before the others, and the
\* matches of the others are never given to the loop body: none of them is
\* rewritten or skipped, and their SumReduces stay in the graph.
C17_FirstMatchClaimsMul ==
    /\ \A j, k \in 1..Len(pass.log) : pass.log[j].mul = pass.log[k].mul => j = k
    /\ \A k \in 1..Len(pass.log) : \A r \in Siblings(pass.log[k]) :
          /\ pass.log[k].sum_reduce < r
          /\ r \in Nodes(graph)
          /\ \A j \in 1..Len(pass.log) : pass.log[j].sum_reduce # r
          /\ \A j \in 1..Len(pass.skipped) :
                pass.skipped[j].sum_reduce = r => pass.skipped[j].run < pass.log[k].run
    /\ Cardinality({n \in Nodes(graph) : graph.ops[n].ty \in Fused}) = Len(pass.log)

\* The first pass has returned from a graph whose Mul 2 fed the two SumReduces
\* 3 and 4: the match with 3 was rewritten, and SumReduce 4 is still there.
C17_Witness ==
    /\ pass.pattern = "done"
    /\ pass.run = 1
    /\ Len(pass.log) = 1
    /\ LastRewrite.mul = 2
    /\ LastRewrite.sum_reduce = 3
    /\ Siblings(LastRewrite) = {4}
    /\ graph.ops[4] = SumReduce(2)
    /\ pass.skipped = << >>

\* ------------------------------------------------------------------ C18

\* C18: external references survive the rewrites: for every SumReduce a
\* rewrite has replaced, the remap followed from its id ends at the fused node,
\* which is in the graph; and if the SumReduce was in no_delete or in
\* to_retrieve, the fused node is in that set and the SumReduce is not.
C18_ReferencesSurvive ==
    \A k \in 1..Len(pass.log) :
        LET e == pass.log[k]
        IN  /\ remap(graph, e.sum_reduce) = e.new_op
            /\ e.new_op \in Nodes(graph)
            /\ e.sum_reduce \notin graph.no_delete \cup graph.to_retrieve
            /\ e.sum_reduce \in e.before.no_delete => e.new_op \in graph.no_delete
            /\ e.sum_reduce \in e.before.to_retrieve => e.new_op \in graph.to_retrieve

\* The pass has returned after two rewrites; the SumReduce of the first was
\* both in no_delete and in to_retrieve, and its fused node now is.
C18_Witness ==
    /\ pass.pattern = "done"
    /\ Len(pass.log) = 2
    /\ pass.log[1].sum_reduce \in pass.log[1].before.no_delete
    /\ pass.log[1].sum_reduce \in pass.log[1].before.to_retrieve
    /\ pass.log[1].new_op \in graph.no_delete \cap graph.to_retrieve
    /\ remap(graph, pass.log[1].sum_reduce) = pass.log[1].new_op

\* ------------------------------------------------------------------ C19

\* C19: save produces an entry for every key of the model's state dict, with
\* the tensor of the key's node; when load has returned, having been given
\* that dictionary for the same model, output 0 of every node in the model's
\* state dict holds exactly the tensor saved under the node's key, and the node
\* is in no_delete; and load does not return if a key of the model is missing
\* from the dictionary it was given: it panics.
C19_StateDictRoundTrip ==
    /\ sd.phase \in {"saved", "loading", "loaded"} =>
          /\ DOMAIN sd.saved = DOMAIN sd.state
          /\ \A k \in DOMAIN sd.saved : sd.saved[k] \in TensorVals
    /\ sd.phase = "loaded" =>
          /\ sd.given = sd.saved
          /\ \A k \in DOMAIN state_dict(sd) :
                 LET n == state_dict(sd)[k]
                 IN  /\ <<n, 0>> \in DOMAIN sd.cx.tensors
                     /\ sd.cx.tensors[<<n, 0>>] = sd.saved[k]
                     /\ n \in sd.cx.no_delete
    /\ (sd.phase \in {"loading", "loaded"}
          /\ DOMAIN state_dict(sd) \ DOMAIN sd.given # {}) =>
          /\ sd.phase = "loading"
          /\ sd.todo \ DOMAIN sd.loader # {}

\* load has returned for a model with two tensors in a module "a", one under
\* the name "w" and one under the empty name: the keys are "a/w" and "a", the
\* nodes of the second graph are not those of the first, and they hold
\* different tensors.
C19_Witness ==
    /\ sd.phase = "loaded"
    /\ sd.offset = 1
    /\ DOMAIN sd.state = {"a", "a/w"}
    /\ sd.state["a"] # sd.state["a/w"]
    /\ sd.saved["a"] # sd.saved["a/w"]
    /\ sd.cx.no_delete = {1, 2}
    /\ sd.cx.tensors[<<sd.state["a/w"] + 1, 0>>] = sd.saved["a/w"]
\* ------------------------------------------------------------------ C21

\* The rewrites of the pattern v that the current invocation has done so far,
\* as indexes of the log.
RewritesOf(v) ==
    {k \in 1..Len(pass.log) : pass.log[k].run = pass.run /\ pass.log[k].pattern = v}

\* C21: at every point of an invocation of the Metal matmul pass and for each
\* of the variants 2D and batched, the kernel of the variant has been compiled
\* once if the invocation has rewritten a match of the variant and not at all
\* if it has not (so never for a variant whose matches are all pinned, and not
\* again for a second match); the cache of the variant is Some exactly from
\* the first rewrite on; every fused node of the variant the invocation has
\* created carries the handle of the cached kernel; the two variants have
\* different kernels; and the cached kernel is none of the kernels that an
\* earlier invocation has put into a node, the cache being None when an
\* invocation starts.
C21_KernelCompiledOnce ==
    /\ \A v \in {"2d", "batched"} :
          /\ pass.compiled[v] = IF RewritesOf(v) = {} THEN 0 ELSE 1
          /\ cached(v) = 0 <=> RewritesOf(v) = {}
          /\ \A k \in RewritesOf(v) :
                /\ pass.log[k].new_op \in Nodes(graph)
                /\ graph.ops[pass.log[k].new_op].kernel = cached(v)
          /\ \A k \in 1..Len(pass.log) :
                pass.log[k].run < pass.run /\ cached(v) # 0
                    => pass.log[k].kernel # cached(v)
    /\ pass.matmul # 0 => pass.matmul # pass.batched_matmul
    /\ pass.last = "start" => pass.matmul = 0 /\ pass.batched_matmul = 0

\* A first invocation has rewritten two matches of the 2D pattern with one
\* kernel, and a second invocation, on another graph, has rewritten a match of
\* the 2D pattern with a kernel it compiled itself.
C21_Witness ==
    /\ Len(pass.log) = 3
    /\ pass.run = 2
    /\ \A k \in 1..3 : pass.log[k].pattern = "2d"
    /\ pass.log[1].run = 1 /\ pass.log[2].run = 1 /\ pass.log[3].run = 2
    /\ pass.log[1].kernel = pass.log[2].kernel
    /\ pass.log[3].kernel # pass.log[1].kernel
    /\ pass.compiled["2d"] = 1
    /\ graph.ops[pass.log[3].new_op].kernel = pass.matmul
\* ------------------------------------------------------------------ C22

\* C22: right after the rewrite of a match, the two trackers of the fused
\* node have no fake axis, and with the logical shape of the first matched
\* source read as the pattern names it they present [A,B] and [B,C] for
\* [A,C,B] (2D), [D,A,B] and [B,C] for [D,A,C,B] (batched), [A,B,C,D] and
\* [A,B,D,E] for [A,B,C,E,D] (attention): the axes remove_dim took away were
\* the fake ones, whatever the indexes of the source trackers.
C22_RemovedAxesAreFake ==
    pass.last = "rewrite" =>
        \E s \in {get_sources(LastRewrite.before, LastRewrite.mul)} :
        \E r \in {get_sources(graph, LastRewrite.new_op)} :
        \E sh \in {shape(s[1].tr)} :
            /\ \A k \in 1..2 : \A i \in 1..len(r[k].tr) : ~r[k].tr.fake[i]
            /\ LastRewrite.pattern = "2d" =>
                  /\ shape(r[1].tr) = <<sh[1], sh[3]>>
                  /\ shape(r[2].tr) = <<sh[3], sh[2]>>
            /\ LastRewrite.pattern = "batched" =>
                  /\ shape(r[1].tr) = <<sh[1], sh[2], sh[4]>>
                  /\ shape(r[2].tr) = <<sh[4], sh[3]>>
            /\ LastRewrite.pattern = "attn" =>
                  /\ shape(r[1].tr) = <<sh[1], sh[2], sh[3], sh[5]>>
                  /\ shape(r[2].tr) = <<sh[1], sh[2], sh[5], sh[4]>>
\* ------------------------------------------------------------------ C23

\* The position on the padded physical axis of the axis presented at k that
\* logical index z of tracker s refers to: the slice starts at its lower bound.
position(s, z, k) == coord(logical_shape(s), z, k) + At(s.slices, At(s.indexes, k))[1]

\* Logical index z of s refers to a stored element: on every axis its position
\* lies behind the padding before the axis and within the dim.
stored(s, z) ==
    \A k \in Positions(s) :
        /\ position(s, z, k) >= At(s.padding, At(s.indexes, k))[1]
        /\ position(s, z, k) < At(s.padding, At(s.indexes, k))[1] + At(s.dims, At(s.indexes, k))

\* The distance in memory of neighbours on physical axis i of a tensor stored
\* contiguously: the product of the dims of the axes after i that are stored.
stored_stride(s, i) ==
    ProductOver([j \in Axes(s) |-> IF j > i /\ ~At(s.fake, j) THEN At(s.dims, j) ELSE 1],
                Axes(s))

\* The sum over the presented positions k, k+1, .. that are stored of the
\* number of the element on the axis times stored_stride.
RECURSIVE offset_from(_, _, _)
offset_from(s, z, k) ==
    IF k >= len(s) THEN 0
    ELSE (IF At(s.fake, At(s.indexes, k)) THEN 0
          ELSE (position(s, z, k) - At(s.padding, At(s.indexes, k))[1])
                   * stored_stride(s, At(s.indexes, k)))
         + offset_from(s, z, k + 1)

\* The offset in memory of the stored element logical index z refers to.
offset(s, z) == offset_from(s, z, 0)

\* C23: for the tracker reached by new, expand, permute, slice and pad calls
\* and every logical index 0 <= z < n_elements, valid_expression at z is 1
\* exactly when z refers to a stored element and not to padding, and where it is
\* 1 index_expression at z is the offset of that element, within
\* 0 .. n_physical_elements - 1.
C23_ValidIffStored ==
    \A z \in 0..(n_elements(st) - 1) :
        /\ valid_expression(st, z) = 1 <=> stored(st, z)
        /\ valid_expression(st, z) = 1 =>
              /\ index_expression(st, z) \in 0..(n_physical_elements(st) - 1)
              /\ index_expression(st, z) = offset(st, z)

\* ------------------------------------------------------------------ C24

\* C24: when a matmul pass has returned, every node id in no_delete or in
\* to_retrieve is the id of a node of the graph; so no rewritten Mul that was in
\* to_retrieve and not in no_delete has left its id behind in to_retrieve.
C24_ReferencesExist ==
    pass.pattern = "done" =>
        /\ graph.no_delete \cup graph.to_retrieve \subseteq Nodes(graph)
        /\ \A k \in 1..Len(pass.log) : pass.log[k].mul \notin graph.to_retrieve
====
